---- MODULE Spec2Model ----
(***************************************************************************)
(* State-machine model of yai.py: the session loop (main), one request     *)
(* (analyze_stock), the data fetch (StockData.get_data), the three         *)
(* analysts (Agent.analyze and the _create_prompt variants) run under      *)
(* asyncio.gather, and the synthesizer (generate_recommendation).          *)
(*                                                                         *)
(* Texts that the code inspects character by character (the symbol typed   *)
(* by the user, the synthesizer's response) are sequences of one-character *)
(* strings; texts that are only passed along are TLA+ strings.             *)
(***************************************************************************)
EXTENDS Integers, Sequences, FiniteSets, TLC

----------------------------------------------------------------------------
(* Bounds of the model *)

\* input_tokens and output_tokens of a response range over 1..MaxTokens
MaxTokens == 2
\* at most MaxAbsent of the provider's optional metadata fields are absent
MaxAbsent == 1
\* the synthesizer's response is made of at most MaxWords words (SignalSpec)
MaxWords == 2
\* the last MaxTail closes of a history depart from its trend (IndicatorSpec)
MaxTail == 2

----------------------------------------------------------------------------
(* Python str operations, on sequences of one-character strings *)

LowerLetters ==
  <<"a","b","c","d","e","f","g","h","i","j","k","l","m",
    "n","o","p","q","r","s","t","u","v","w","x","y","z">>

UpperLetters ==
  <<"A","B","C","D","E","F","G","H","I","J","K","L","M",
    "N","O","P","Q","R","S","T","U","V","W","X","Y","Z">>

UpperChar(c) ==
  IF \E i \in 1..26 : LowerLetters[i] = c
  THEN UpperLetters[CHOOSE i \in 1..26 : LowerLetters[i] = c]
  ELSE c

\* str.upper()
upper(s) == [i \in 1..Len(s) |-> UpperChar(s[i])]

\* str.find(t) + 1: the 1-based place of the first occurrence of t in s, 0 if none
Find(s, t) ==
  LET places == {i \in 1..(Len(s) - Len(t) + 1) : SubSeq(s, i, i + Len(t) - 1) = t}
  IN  IF places = {} THEN 0
      ELSE CHOOSE i \in places : \A j \in places : i <= j

\* t in s
Contains(s, t) == Find(s, t) # 0

\* s.replace(t, "", 1)
replace_first(s, t) ==
  LET i == Find(s, t)
  IN  IF i = 0 THEN s
      ELSE SubSeq(s, 1, i - 1) \o SubSeq(s, i + Len(t), Len(s))

Whitespace == {" ", "\n", "\t"}

\* str.strip()
strip(s) ==
  LET keep == {i \in 1..Len(s) : s[i] \notin Whitespace}
  IN  IF keep = {} THEN <<>>
      ELSE LET lo == CHOOSE i \in keep : \A j \in keep : i <= j
               hi == CHOOSE i \in keep : \A j \in keep : i >= j
           IN  SubSeq(s, lo, hi)

\* s.startswith(t)
StartsWith(s, t) == Len(s) >= Len(t) /\ SubSeq(s, 1, Len(t)) = t

----------------------------------------------------------------------------
(* Program constants *)

BUY == <<"B","U","Y">>
SELL == <<"S","E","L","L">>
HOLD == <<"H","O","L","D">>
ERROR == <<"E","R","R","O","R">>

QUIT == <<"Q","U","I","T">>
Q == <<"Q">>

\* the analysts list of analyze_stock, in registration order
NumAnalysts == 3
Analysts == 1..NumAnalysts
AgentName == <<"Technical Analysis", "Fundamental Analysis", "Market Analysis">>

None == "None"
Num == "num"

FundamentalFields ==
  {"market_cap", "pe_ratio", "pb_ratio", "profit_margin", "revenue_growth", "debt_to_equity"}
MarketInfoFields == {"beta", "sector", "industry"}
OptionalFields == FundamentalFields \cup MarketInfoFields

----------------------------------------------------------------------------
(* The outside world: the market-data provider and the generation backend *)

\* exceptions raised by yfinance, by AsyncAnthropic(...) and by messages.create
FetchErrors == {"No data found, symbol may be delisted"}
ClientErrors == {"Could not resolve authentication method"}
GenerationErrors == {"Request timed out."}

\* exceptions raised by the code's own expressions
IndexErrorPositional == "single positional indexer is out-of-bounds"
IndexErrorList == "list index out of range"
FormatTypeError == "unsupported format string passed to NoneType.__format__"

\* stock.info: the metadata keys the provider returned
InfoDicts == {OptionalFields \ a : a \in {b \in SUBSET OptionalFields : Cardinality(b) <= MaxAbsent}}

\* info.get(k)
info_get(info, k) ==
  IF k \in info
  THEN (IF k \in {"sector", "industry"} THEN "Technology" ELSE Num)
  ELSE None

\* response.usage
Usages == [input_tokens : 1..MaxTokens, output_tokens : 1..MaxTokens]

NoUsage == [input_tokens |-> 0, output_tokens |-> 0]

\* a content block: a text block has .text, any other block only has str()
TextBlock(t, r) == [hasText |-> TRUE, text |-> t, repr |-> r]
OtherBlock(r) == [hasText |-> FALSE, text |-> r, repr |-> r]

\* response.content is a list of blocks, or (isList = FALSE) a bare value
ListContent(bs) == [isList |-> TRUE, blocks |-> bs]
BareContent(v) == [isList |-> FALSE, blocks |-> <<TextBlock(v, v)>>]

\* what awaiting client.messages.create(...) comes back with
Raised(e) == [raised |-> TRUE, err |-> e, content |-> ListContent(<<>>), usage |-> NoUsage]
Returned(c, u) == [raised |-> FALSE, err |-> "", content |-> c, usage |-> u]

AnalysisText == "Trend is up; support near the 50-day average."
TextBlockRepr == "TextBlock(text='...', type='text')"
ToolBlockRepr == "ToolUseBlock(id='t', input={}, name='n', type='tool_use')"

AnalystResponses ==
  {Raised(e) : e \in GenerationErrors}
    \cup {Returned(c, u) : c \in {ListContent(<<TextBlock(AnalysisText, TextBlockRepr)>>),
                                  ListContent(<<OtherBlock(ToolBlockRepr)>>),
                                  ListContent(<<>>)},
                           u \in Usages}

\* "Handle the response content properly": content[0] raises IndexError on an
\* empty list
content_raises(content) == content.isList /\ Len(content.blocks) = 0

\* ... and otherwise the text is content[0].text, str(content[0]) or the bare value
content_text(content) ==
  IF content.isList
  THEN (IF content.blocks[1].hasText THEN content.blocks[1].text ELSE content.blocks[1].repr)
  ELSE content.blocks[1].text

\* response.usage.input_tokens + response.usage.output_tokens
usage_tokens(usage) == usage.input_tokens + usage.output_tokens

----------------------------------------------------------------------------
(* Agent and its three variants *)

\* the fields a variant's _create_prompt formats with a numeric format
\* specification (":.2f", ":,.0f", "*100:.1f"); the technical fields are floats
\* computed by pandas and are never None
NumericFormatted(i) ==
  CASE i = 1 -> {}
    [] i = 2 -> FundamentalFields \cup {"beta"}
    [] i = 3 -> {"beta"}

\* the fields a variant's _create_prompt formats with no format specification
PlainFormatted(i) ==
  CASE i = 1 -> {}
    [] i = 2 -> {"sector", "industry"}
    [] i = 3 -> {"sector", "industry"}

\* the metadata of the FeatureSet, by field name
feature(data, k) ==
  IF k \in FundamentalFields THEN data.fundamental[k] ELSE data.market[k]

\* f"{v:.2f}" raises TypeError when v is None
format_raises(v) == v = None

\* f"{v:.2f}" and f"{v}"
format_numeric(v) == "0.00"
format_plain(v) == v

\* self._create_prompt(data) raises TypeError
create_prompt_raises(i, data) ==
  \E k \in NumericFormatted(i) : format_raises(feature(data, k))

\* self._create_prompt(data): the symbol and the rendered value of every
\* templated metadata field
create_prompt(i, data) ==
  [symbol |-> data.symbol,
   fields |-> [k \in NumericFormatted(i) \cup PlainFormatted(i) |->
                 IF k \in NumericFormatted(i) THEN format_numeric(feature(data, k))
                 ELSE format_plain(feature(data, k))]]

\* variant of client_of: the analysts use one module-level client
client_shared(i) == 1

\* self.client of analyst i: Agent.__init__ constructs one AsyncAnthropic for
\* each analyst, the i-th constructed of the request
client_of(i) == i

\* client.messages.create(..., messages=[{"role": "user", "content": prompt}])
messages_create(client, prompt) ==
  [client |-> client, symbol |-> prompt.symbol, fields |-> prompt.fields]

\* variant of analyze_failed: the degraded Assessment carries the role's
\* position instead of the agent's name
analyze_failed_unnamed(i, e) ==
  [agent |-> "Agent", analysis |-> "Analysis failed: " \o e, tokens |-> 0]

\* the except branch of Agent.analyze
analyze_failed(i, e) ==
  [agent |-> AgentName[i], analysis |-> "Analysis failed: " \o e, tokens |-> 0]

\* Agent.analyze once the remote call has come back with r
analyze_result(i, r) ==
  IF r.raised THEN analyze_failed(i, r.err)
  ELSE IF content_raises(r.content) THEN analyze_failed(i, IndexErrorList)
  ELSE [agent |-> AgentName[i],
        analysis |-> content_text(r.content),
        tokens |-> usage_tokens(r.usage)]

\* variants of gather: only the results that carry an analysis of the backend;
\* the results in the order the tasks completed
gather_successful(results, completed) ==
  SelectSeq([i \in Analysts |-> results[i][1]], LAMBDA a : a.tokens > 0)

gather_as_completed(results, completed) ==
  [k \in Analysts |-> results[completed[k]][1]]

\* asyncio.gather: the results in the order of the awaitables passed in
gather(results, completed) == [i \in Analysts |-> results[i][1]]

----------------------------------------------------------------------------
(* generate_recommendation *)

\* "\n\n".join([f"{a['agent']}:\n{a['analysis']}" for a in analyses]), as the
\* sequence of its pieces
\* variant of piece_of: the analysis without the agent's name
piece_of_analysis_only(a) == <<a.analysis>>

\* f"{a['agent']}:\n{a['analysis']}"
piece_of(a) == <<a.agent, ":\n", a.analysis>>

RECURSIVE combine(_)
combine(analyses) ==
  IF Len(analyses) = 0 THEN <<>>
  ELSE LET piece == piece_of(analyses[Len(analyses)])
       IN  IF Len(analyses) = 1 THEN piece
           ELSE combine(SubSeq(analyses, 1, Len(analyses) - 1)) \o <<"\n\n">> \o piece

\* variant of extract_signal: the search without upper()
extract_signal_case_sensitive(content) ==
  IF Contains(content, BUY) THEN BUY
  ELSE IF Contains(content, SELL) THEN SELL
  ELSE HOLD

\* "Extract signal from processed content"
extract_signal(content) ==
  IF Contains(upper(content), BUY) THEN BUY
  ELSE IF Contains(upper(content), SELL) THEN SELL
  ELSE HOLD

\* content.replace(signal, "", 1).strip()
explanation_of(content, signal) == strip(replace_first(content, signal))

\* variant of recommend_failed: a failed synthesis degrades to HOLD
recommend_failed_hold(msg) == [signal |-> HOLD, explanation |-> <<msg>>, tokens |-> 0]

\* the except branches of generate_recommendation
recommend_failed(msg) == [signal |-> ERROR, explanation |-> <<msg>>, tokens |-> 0]

\* generate_recommendation once the remote call has come back with r
recommend_result(r) ==
  IF r.raised THEN recommend_failed(r.err)
  ELSE IF content_raises(r.content) THEN recommend_failed(IndexErrorList)
  ELSE LET content == content_text(r.content)
           signal == extract_signal(content)
       IN  [signal |-> signal,
            explanation |-> explanation_of(content, signal),
            tokens |-> usage_tokens(r.usage)]

\* str() of a text block holds its text
text_block_repr(t) == <<"TextBlock(text='">> \o t \o <<"', type='text')">>

\* the synthesizer's responses whose text is drawn from texts
RecommendResponses(texts) ==
  {Raised(e) : e \in GenerationErrors}
    \cup {Returned(c, u) : c \in {ListContent(<<TextBlock(t, text_block_repr(t))>>) : t \in texts}
                                   \cup {ListContent(<<OtherBlock(<<ToolBlockRepr>>)>>),
                                         ListContent(<<>>)},
                           u \in Usages}

\* the same texts as bare values of response.content, not lists of blocks
BareResponses(texts) == {Returned(BareContent(t), u) : t \in texts, u \in Usages}

\* response texts of the session: the replies a model gives to the prompt
SampleTexts ==
  { <<"B","U","Y"," ","m","o","r","e",","," ","d","o"," ","n","o","t"," ","S","E","L","L">>,
    <<"R","e","c","o","m","m","e","n","d",":"," ","S","E","L","L"," ","d","u","e"," ","t","o"," ","d","e","b","t">>,
    <<"H","O","L","D","."," ","M","i","x","e","d"," ","s","i","g","n","a","l","s",".">>,
    <<"b","u","y"," ","o","n"," ","s","t","r","e","n","g","t","h">> }

\* response texts made of at most MaxWords words
Words ==
  { BUY, <<"b","u","y">>, <<"B","u","y">>, SELL, <<"s","e","l","l">>, HOLD,
    <<" ">>, <<"n","o","w">> }

RECURSIVE Flatten(_)
Flatten(ws) == IF Len(ws) = 0 THEN <<>> ELSE Head(ws) \o Flatten(Tail(ws))

WordTexts == {Flatten(ws) : ws \in UNION {[1..n -> Words] : n \in 0..MaxWords}}

\* sum(a['tokens'] for a in analyses)
RECURSIVE sum_tokens(_)
sum_tokens(analyses) ==
  IF Len(analyses) = 0 THEN 0
  ELSE Head(analyses).tokens + sum_tokens(Tail(analyses))

\* variant of total_tokens_of: the Decision's tokens left out
total_tokens_of_analyses(analyses, recommendation) ==
  sum_tokens(analyses)

\* "Calculate total tokens"
total_tokens_of(analyses, recommendation) ==
  sum_tokens(analyses) + recommendation.tokens

----------------------------------------------------------------------------
(* The indicator columns of StockData.get_data *)

\* a float: a ratio num/den with den > 0, an infinity or NaN
Float == [kind : {"num", "nan", "inf", "-inf"}, num : Int, den : Int]
Rat(n, d) == [kind |-> "num", num |-> n, den |-> d]
NaN == [kind |-> "nan", num |-> 0, den |-> 1]
Inf == [kind |-> "inf", num |-> 1, den |-> 1]
NegInf == [kind |-> "-inf", num |-> -1, den |-> 1]

\* -a
Neg[a \in Float] ==
  CASE a.kind = "num" -> Rat(-a.num, a.den)
    [] a.kind = "inf" -> NegInf
    [] a.kind = "-inf" -> Inf
    [] OTHER -> NaN

\* a + b
fadd[a \in Float, b \in Float] ==
  CASE a.kind = "nan" \/ b.kind = "nan" -> NaN
    [] a.kind = "num" /\ b.kind = "num" -> Rat(a.num * b.den + b.num * a.den, a.den * b.den)
    [] a.kind = "num" -> b
    [] b.kind = "num" -> a
    [] a.kind = b.kind -> a
    [] OTHER -> NaN

\* a - b
fsub[a \in Float, b \in Float] == fadd[a, Neg[b]]

\* a / b: x/0 is an infinity, 0/0 and inf/inf are NaN, no exception is raised
fdiv[a \in Float, b \in Float] ==
  CASE a.kind = "nan" \/ b.kind = "nan" -> NaN
    [] a.kind = "num" /\ b.kind = "num" ->
         IF b.num = 0
         THEN (IF a.num = 0 THEN NaN ELSE IF a.num > 0 THEN Inf ELSE NegInf)
         ELSE IF b.num > 0 THEN Rat(a.num * b.den, a.den * b.num)
         ELSE Rat(-(a.num * b.den), -(a.den * b.num))
    [] a.kind = "num" -> Rat(0, 1)
    [] b.kind = "num" -> (IF (b.num >= 0) = (a.kind = "inf") THEN Inf ELSE NegInf)
    [] OTHER -> NaN

\* the rows a history may have: none, too few for one window or another, a year
SeriesRows == {0, 1, 2, 13, 14, 15, 19, 20, 21, 49, 50, 199, 200, 252}

\* the trends of a history
Trends == {"flat", "up", "down"}

\* what the last MaxTail closes add to the trend
Tails == [1..MaxTail -> {-2, 0, 2}]
NoTail == [j \in 1..MaxTail |-> 0]

\* stock.history(period="1y") and stock.info
History(rows, trend, tail, info) ==
  [rows |-> rows, trend |-> trend, tail |-> tail, info |-> info]

\* hist['Close'], 1-based
Close(h) ==
  [i \in 1..h.rows |->
     (CASE h.trend = "flat" -> 100
        [] h.trend = "up" -> 100 + i
        [] h.trend = "down" -> 400 - i)
     + (IF i > h.rows - MaxTail THEN h.tail[i - (h.rows - MaxTail)] ELSE 0)]

\* len(s), of a column s
Rows(s) == Cardinality(DOMAIN s)

\* the sum of s[lo..hi]
SumRange(s, lo, hi) ==
  LET sum[a \in lo..hi, b \in lo..hi] ==
        IF a = b THEN s[a]
        ELSE sum[a, (a + b) \div 2] + sum[(a + b) \div 2 + 1, b]
  IN  IF lo > hi THEN 0 ELSE sum[lo, hi]

\* variant of rolling_mean_last: min_periods = 1, the mean of the rows there are
rolling_mean_last_min_periods_1(s, window) ==
  IF Rows(s) = 0 THEN NaN
  ELSE IF Rows(s) < window THEN Rat(SumRange(s, 1, Rows(s)), Rows(s))
  ELSE Rat(SumRange(s, Rows(s) - window + 1, Rows(s)), window)

\* s.rolling(window=window).mean().iloc[-1]: NaN until the window is filled
rolling_mean_last(s, window) ==
  IF Rows(s) < window THEN NaN
  ELSE Rat(SumRange(s, Rows(s) - window + 1, Rows(s)), window)

\* delta.where(delta > 0, 0): the first delta is NaN and becomes 0
gain_of(close) ==
  [i \in 1..Rows(close) |->
     IF i >= 2 /\ close[i] - close[i - 1] > 0 THEN close[i] - close[i - 1] ELSE 0]

\* -delta.where(delta < 0, 0)
loss_of(close) ==
  [i \in 1..Rows(close) |->
     IF i >= 2 /\ close[i] - close[i - 1] < 0 THEN close[i - 1] - close[i] ELSE 0]

\* hist['RSI'].iloc[-1]
rsi_last(close) ==
  LET gain == rolling_mean_last(gain_of(close), 14)
      loss == rolling_mean_last(loss_of(close), 14)
      rs == fdiv[gain, loss]
  IN  fsub[Rat(100, 1), fdiv[Rat(100, 1), fadd[Rat(1, 1), rs]]]

\* hist['Close'].pct_change(periods).iloc[-1]
pct_change_last(close, periods) ==
  IF Rows(close) <= periods THEN NaN
  ELSE fsub[fdiv[Rat(close[Rows(close)], 1), Rat(close[Rows(close) - periods], 1)], Rat(1, 1)]

\* the "technical" entry of the returned dictionary, of a history with rows;
\* volume, avg_volume and volatility are left out
technical_of(h) ==
  LET close == Close(h)
  IN  [price |-> Rat(close[Rows(close)], 1),
       sma50 |-> rolling_mean_last(close, 50),
       sma200 |-> rolling_mean_last(close, 200),
       rsi |-> rsi_last(close),
       daily_change |-> pct_change_last(close, 1),
       monthly_change |-> pct_change_last(close, 20)]

----------------------------------------------------------------------------
(* State *)

VARIABLES
  pc,             \* where main / analyze_stock stands
  symbol,         \* main's symbol: the line last read, upper-cased
  hist,           \* get_data: the fetched history and metadata, <<>> before the fetch
  spy_hist,       \* get_data: the fetched reference history, <<>> before the fetch
  data,           \* analyze_stock: the FeatureSet, <<>> before get_data returns
  epc,            \* per analyst: where its analyze task stands
  efail,          \* per analyst: the except branch analyze took, "none" if none
  calls,          \* per analyst: the prompts of the remote calls it issued
  results,        \* per analyst: the Assessment its task returned, <<>> before
  completed,      \* the analysts in the order their tasks completed
  analyses,       \* analyze_stock: the list asyncio.gather returned
  invocations,    \* the argument of every generate_recommendation call
  rcalls,         \* the combined text of every remote call of the synthesizer
  rfail,          \* the except branch generate_recommendation took
  response,       \* what the synthesizer's remote call came back with, <<>> before
  recommendation, \* analyze_stock: the Decision, <<>> before
  report,         \* what the report stage printed, <<>> before
  outcome,        \* how the last request ended
  message         \* the request-level error message printed

vars ==
  <<pc, symbol, hist, spy_hist, data, epc, efail, calls, results, completed,
    analyses, invocations, rcalls, rfail, response, recommendation, report, outcome,
    message>>

\* the locals of analyze_stock and of the calls below it
request_vars ==
  <<hist, spy_hist, data, epc, efail, calls, results, completed, analyses,
    invocations, rcalls, rfail, response, recommendation, report, message>>

\* what the user may type
InputLines ==
  { <<>>, <<"q">>, <<"q","u","i","t">>, <<"Q","u","i","t">>,
    <<"a","a","p","l">> }

\* rows of a one-year history: none (unknown symbol) or a full year
HistoryRows == {0, 252}

FreshRequest ==
  /\ hist = <<>>
  /\ spy_hist = <<>>
  /\ data = <<>>
  /\ epc = [i \in Analysts |-> "none"]
  /\ efail = [i \in Analysts |-> "none"]
  /\ calls = [i \in Analysts |-> <<>>]
  /\ results = [i \in Analysts |-> <<>>]
  /\ completed = <<>>
  /\ analyses = <<>>
  /\ invocations = <<>>
  /\ rcalls = <<>>
  /\ rfail = "none"
  /\ response = <<>>
  /\ recommendation = <<>>
  /\ report = <<>>
  /\ message = <<>>

\* a call of analyze_stock starts with fresh locals
ResetRequest ==
  /\ hist' = <<>>
  /\ spy_hist' = <<>>
  /\ data' = <<>>
  /\ epc' = [i \in Analysts |-> "none"]
  /\ efail' = [i \in Analysts |-> "none"]
  /\ calls' = [i \in Analysts |-> <<>>]
  /\ results' = [i \in Analysts |-> <<>>]
  /\ completed' = <<>>
  /\ analyses' = <<>>
  /\ invocations' = <<>>
  /\ rcalls' = <<>>
  /\ rfail' = "none"
  /\ response' = <<>>
  /\ recommendation' = <<>>
  /\ report' = <<>>
  /\ message' = <<>>

Init ==
  /\ pc = "main"
  /\ symbol = <<>>
  /\ outcome = "none"
  /\ FreshRequest

\* variant of Abort: the error is printed and the request carries on
Abort_and_continue(e) ==
  /\ pc' = "creating"
  /\ outcome' = "aborted"
  /\ message' = <<"Error: ">> \o e

\* the except branch of analyze_stock: print(f"Error: {str(e)}")
Abort(e) ==
  /\ pc' = "input"
  /\ outcome' = "aborted"
  /\ message' = <<"Error: ">> \o e

----------------------------------------------------------------------------
(* main *)

\* "Verify API key at startup"
main_verify ==
  /\ pc = "main"
  /\ \E ok \in BOOLEAN : pc' = IF ok THEN "input" ELSE "exit"
  /\ UNCHANGED <<symbol, outcome, request_vars>>

\* variant of main_input: an empty line ends the loop like QUIT
main_input_empty_breaks ==
  /\ pc = "input"
  /\ \E line \in InputLines :
       LET s == upper(line)
       IN  IF s \in {QUIT, Q, <<>>}
           THEN /\ pc' = "exit"
                /\ symbol' = s
                /\ UNCHANGED outcome
           ELSE /\ pc' = "fetching"
                /\ symbol' = s
                /\ outcome' = "running"
  /\ ResetRequest

\* one turn of the while loop, up to the call of analyze_stock; the locals of
\* the previous request are gone
main_input ==
  /\ pc = "input"
  /\ \E line \in InputLines :
       LET s == upper(line)
       IN  IF s \in {QUIT, Q}
           THEN /\ pc' = "exit"
                /\ symbol' = s
                /\ UNCHANGED outcome
           ELSE IF s # <<>>
           THEN /\ pc' = "fetching"
                /\ symbol' = s
                /\ outcome' = "running"
           ELSE /\ pc' = "input"
                /\ symbol' = s
                /\ outcome' = "invalid"
  /\ ResetRequest

----------------------------------------------------------------------------
(* StockData.get_data *)

fetch_error(e) == <<"Error fetching data for ">> \o symbol \o <<": ", e>>

\* stock.history(period="1y") and stock.info
get_data_stock ==
  /\ pc = "fetching"
  /\ \/ \E e \in FetchErrors :
          /\ Abort(fetch_error(e))
          /\ UNCHANGED hist
     \/ \E rows \in HistoryRows, info \in InfoDicts :
          /\ hist' = <<History(rows, "up", NoTail, info)>>
          /\ pc' = "fetching_reference"
          /\ UNCHANGED <<outcome, message>>
  /\ UNCHANGED <<symbol, spy_hist, data, epc, efail, calls, results, completed,
                 analyses, invocations, rcalls, rfail, response, recommendation, report>>

\* the indicator columns, then spy.history(period="1y")
get_data_reference ==
  /\ pc = "fetching_reference"
  /\ \/ \E e \in FetchErrors :
          /\ Abort(fetch_error(e))
          /\ UNCHANGED spy_hist
     \/ \E rows \in HistoryRows :
          /\ spy_hist' = <<rows>>
          /\ pc' = "computing"
          /\ UNCHANGED <<outcome, message>>
  /\ UNCHANGED <<symbol, hist, data, epc, efail, calls, results, completed,
                 analyses, invocations, rcalls, rfail, response, recommendation, report>>

\* the FeatureSet get_data returns, from the history and metadata h
feature_set(sym, h) ==
  [symbol |-> sym,
   technical |-> technical_of(h),
   fundamental |-> [k \in FundamentalFields |-> info_get(h.info, k)],
   market |-> [k \in MarketInfoFields |-> info_get(h.info, k)]]

\* the returns and the returned dictionary: .iloc[-1] and .iloc[0] raise
\* IndexError on an empty history
get_data_features ==
  /\ pc = "computing"
  /\ IF hist[1].rows = 0 \/ spy_hist[1] = 0
     THEN /\ Abort(fetch_error(IndexErrorPositional))
          /\ UNCHANGED data
     ELSE /\ data' = <<feature_set(symbol, hist[1])>>
          /\ pc' = "creating"
          /\ UNCHANGED <<outcome, message>>
  /\ hist' = <<>>
  /\ spy_hist' = <<>>
  /\ UNCHANGED <<symbol, epc, efail, calls, results, completed,
                 analyses, invocations, rcalls, rfail, response, recommendation, report>>

----------------------------------------------------------------------------
(* analyze_stock: the analysts *)

\* "Create analysts": three Agent.__init__, each constructing its own client,
\* then asyncio.gather wraps the three analyze coroutines in tasks
create_analysts ==
  /\ pc = "creating"
  /\ \/ \E e \in ClientErrors :
          /\ Abort(<<e>>)
          /\ UNCHANGED epc
     \/ /\ epc' = [i \in Analysts |-> "created"]
        /\ pc' = "evaluating"
        /\ UNCHANGED <<outcome, message>>
  /\ UNCHANGED <<symbol, hist, spy_hist, data, efail, calls, results, completed,
                 analyses, invocations, rcalls, rfail, response, recommendation, report>>

\* the first step of analyst i's task: render the prompt and issue the remote
\* call; the event loop runs the tasks' first steps in creation order
analyze_start(i) ==
  /\ pc = "evaluating"
  /\ epc[i] = "created"
  /\ \A j \in Analysts : j < i => epc[j] # "created"
  /\ IF create_prompt_raises(i, data[1])
     THEN /\ efail' = [efail EXCEPT ![i] = "render"]
          /\ results' = [results EXCEPT ![i] = <<analyze_failed(i, FormatTypeError)>>]
          /\ epc' = [epc EXCEPT ![i] = "done"]
          /\ completed' = Append(completed, i)
          /\ UNCHANGED calls
     ELSE /\ calls' = [calls EXCEPT ![i] =
                          Append(@, messages_create(client_of(i), create_prompt(i, data[1])))]
          /\ epc' = [epc EXCEPT ![i] = "awaiting"]
          /\ UNCHANGED <<efail, results, completed>>
  /\ UNCHANGED <<pc, symbol, hist, spy_hist, data, analyses, invocations, rcalls,
                 rfail, response, recommendation, report, outcome, message>>

\* which except cause a response leads to
response_failure(r) ==
  IF r.raised THEN "call" ELSE IF content_raises(r.content) THEN "parse" ELSE "none"

\* variant of analyze_return: no except branch, a raised call ends the request
analyze_return_propagating(i) ==
  /\ pc = "evaluating"
  /\ epc[i] = "awaiting"
  /\ \A j \in Analysts : epc[j] # "created"
  /\ \E r \in AnalystResponses :
       IF r.raised
       THEN /\ Abort(<<r.err>>)
            /\ UNCHANGED <<efail, results, epc, completed>>
       ELSE /\ efail' = [efail EXCEPT ![i] = response_failure(r)]
            /\ results' = [results EXCEPT ![i] = <<analyze_result(i, r)>>]
            /\ epc' = [epc EXCEPT ![i] = "done"]
            /\ completed' = Append(completed, i)
            /\ UNCHANGED <<pc, outcome, message>>
  /\ UNCHANGED <<symbol, hist, spy_hist, data, calls, analyses, invocations,
                 rcalls, rfail, response, recommendation, report>>

\* analyst i's remote call comes back (in any order among the analysts) and
\* its task runs to its return
analyze_return(i) ==
  /\ pc = "evaluating"
  /\ epc[i] = "awaiting"
  /\ \A j \in Analysts : epc[j] # "created"
  /\ \E r \in AnalystResponses :
       /\ efail' = [efail EXCEPT ![i] = response_failure(r)]
       /\ results' = [results EXCEPT ![i] = <<analyze_result(i, r)>>]
  /\ epc' = [epc EXCEPT ![i] = "done"]
  /\ completed' = Append(completed, i)
  /\ UNCHANGED <<pc, symbol, hist, spy_hist, data, calls, analyses, invocations,
                 rcalls, rfail, response, recommendation, report, outcome, message>>

\* variant of gather_return: the await returns as soon as one task is done,
\* with the results there are
gather_return_first_completed ==
  /\ pc = "evaluating"
  /\ \E i \in Analysts : epc[i] = "done"
  /\ analyses' = [k \in 1..Len(completed) |-> results[completed[k]][1]]
  /\ pc' = "synthesizing"
  /\ UNCHANGED <<symbol, hist, spy_hist, data, epc, efail, calls, results, completed,
                 invocations, rcalls, rfail, response, recommendation, report, outcome,
                 message>>

\* every task is done: the await of asyncio.gather returns the list
gather_return ==
  /\ pc = "evaluating"
  /\ \A i \in Analysts : epc[i] = "done"
  /\ analyses' = gather(results, completed)
  /\ pc' = "synthesizing"
  /\ UNCHANGED <<symbol, hist, spy_hist, data, epc, efail, calls, results, completed,
                 invocations, rcalls, rfail, response, recommendation, report, outcome,
                 message>>

----------------------------------------------------------------------------
(* analyze_stock: the recommendation and the report *)

\* variant of recommend_start: no synthesis when no analyst produced an analysis
recommend_start_unless_degraded ==
  /\ pc = "synthesizing"
  /\ completed' = <<>>
  /\ IF \A i \in Analysts : analyses[i].tokens = 0
     THEN /\ rfail' = "client"
          /\ recommendation' = <<recommend_failed("No analysis available")>>
          /\ pc' = "report"
          /\ UNCHANGED <<invocations, rcalls>>
     ELSE /\ invocations' = Append(invocations, analyses)
          /\ \/ \E e \in ClientErrors :
                  /\ rfail' = "client"
                  /\ recommendation' =
                       <<recommend_failed("Failed to initialize client: " \o e)>>
                  /\ pc' = "report"
                  /\ UNCHANGED rcalls
             \/ /\ rcalls' = Append(rcalls, combine(analyses))
                /\ pc' = "awaiting_recommendation"
                /\ UNCHANGED <<rfail, recommendation>>
  /\ UNCHANGED <<symbol, hist, spy_hist, data, epc, efail, calls, results,
                 analyses, response, report, outcome, message>>

\* generate_recommendation(analyses) up to its await: construct the client,
\* combine the analyses, issue the remote call; the gather future and its
\* record of completions are gone
recommend_start ==
  /\ pc = "synthesizing"
  /\ invocations' = Append(invocations, analyses)
  /\ completed' = <<>>
  /\ \/ \E e \in ClientErrors :
          /\ rfail' = "client"
          /\ recommendation' = <<recommend_failed("Failed to initialize client: " \o e)>>
          /\ pc' = "report"
          /\ UNCHANGED rcalls
     \/ /\ rcalls' = Append(rcalls, combine(analyses))
        /\ pc' = "awaiting_recommendation"
        /\ UNCHANGED <<rfail, recommendation>>
  /\ UNCHANGED <<symbol, hist, spy_hist, data, epc, efail, calls, results,
                 analyses, response, report, outcome, message>>

\* the synthesizer's remote call comes back, with one of responses
recommend_return(responses) ==
  /\ pc = "awaiting_recommendation"
  /\ \E r \in responses :
       /\ response' = <<r>>
       /\ rfail' = response_failure(r)
       /\ recommendation' = <<recommend_result(r)>>
  /\ pc' = "report"
  /\ UNCHANGED <<symbol, hist, spy_hist, data, epc, efail, calls, results, completed,
                 analyses, invocations, rcalls, report, outcome, message>>

\* "Calculate total tokens" and the printed report
\* variant of print_report: printing the report raises after the report is out
print_report_raising ==
  /\ pc = "report"
  /\ report' = <<[assessments |-> analyses,
                  signal |-> recommendation[1].signal,
                  rationale |-> recommendation[1].explanation,
                  total_tokens |-> total_tokens_of(analyses, recommendation[1])]>>
  /\ Abort(<<"format">>)
  /\ UNCHANGED <<symbol, hist, spy_hist, data, epc, efail, calls, results, completed,
                 analyses, invocations, rcalls, rfail, response, recommendation>>

print_report ==
  /\ pc = "report"
  /\ report' = <<[assessments |-> analyses,
                  signal |-> recommendation[1].signal,
                  rationale |-> recommendation[1].explanation,
                  total_tokens |-> total_tokens_of(analyses, recommendation[1])]>>
  /\ outcome' = "reported"
  /\ pc' = "input"
  /\ UNCHANGED <<symbol, hist, spy_hist, data, epc, efail, calls, results, completed,
                 analyses, invocations, rcalls, rfail, response, recommendation, message>>

----------------------------------------------------------------------------
(* Specifications *)

Next ==
  \/ main_verify
  \/ main_input
  \/ get_data_stock
  \/ get_data_reference
  \/ get_data_features
  \/ create_analysts
  \/ \E i \in Analysts : analyze_start(i)
  \/ \E i \in Analysts : analyze_return(i)
  \/ gather_return
  \/ recommend_start
  \/ recommend_return(RecommendResponses(SampleTexts))
  \/ print_report

Spec == Init /\ [][Next]_vars

\* the steps of a request: the event loop runs every task that can run, and
\* every fetch and every remote call comes back, with a result or an exception
RequestStep ==
  \/ get_data_stock
  \/ get_data_reference
  \/ get_data_features
  \/ create_analysts
  \/ \E i \in Analysts : analyze_start(i)
  \/ \E i \in Analysts : analyze_return(i)
  \/ gather_return
  \/ recommend_start
  \/ recommend_return(RecommendResponses(SampleTexts))
  \/ print_report

FairSpec == Spec /\ WF_vars(RequestStep)

\* The synthesizer alone: a request whose three analysts succeeded is waiting
\* for the synthesizer's remote call, which comes back with any text of at
\* most MaxWords words, as a list of blocks or as a bare value
SignalInit ==
  LET sym == <<"A","A","P","L">>
      fs == feature_set(sym, History(252, "up", NoTail, OptionalFields))
      u == [input_tokens |-> 1, output_tokens |-> 1]
      r == Returned(ListContent(<<TextBlock(AnalysisText, TextBlockRepr)>>), u)
      res == [i \in Analysts |-> <<analyze_result(i, r)>>]
      gathered == gather(res, <<1, 2, 3>>)
  IN  /\ pc = "awaiting_recommendation"
      /\ symbol = sym
      /\ outcome = "running"
      /\ hist = <<>>
      /\ spy_hist = <<>>
      /\ data = <<fs>>
      /\ epc = [i \in Analysts |-> "done"]
      /\ efail = [i \in Analysts |-> "none"]
      /\ calls = [i \in Analysts |-> <<messages_create(client_of(i), create_prompt(i, fs))>>]
      /\ results = res
      /\ completed = <<>>
      /\ analyses = gathered
      /\ invocations = <<gathered>>
      /\ rcalls = <<combine(gathered)>>
      /\ rfail = "none"
      /\ response = <<>>
      /\ recommendation = <<>>
      /\ report = <<>>
      /\ message = <<>>

SignalNext ==
  \/ recommend_return(RecommendResponses(WordTexts) \cup BareResponses(WordTexts))
  \/ print_report

SignalSpec == SignalInit /\ [][SignalNext]_vars

----------------------------------------------------------------------------
(* Properties *)

\* asyncio.gather has returned in the request at hand
Gathered ==
  \/ pc \in {"synthesizing", "awaiting_recommendation", "report"}
  \/ pc = "input" /\ outcome = "reported"

\* C1: once the data fetch has succeeded and the orchestrator's gather has
\* returned, the list of Assessments has exactly as many entries as there are
\* registered analysts, three, whichever of them failed.
C1_LengthIsNumAnalysts ==
  Gathered => Len(analyses) = NumAnalysts /\ NumAnalysts = 3

C1_Witness ==
  /\ Gathered
  /\ efail[1] = "call"
  /\ efail[2] = "none"
  /\ efail[3] = "parse"
  /\ Len(analyses) = 3

\* C2: whatever order the analysts' tasks completed in, the i-th Assessment of
\* the gathered list carries the name of the i-th registered analyst
\* (Technical, Fundamental, Market).
C2_RegistrationOrder ==
  Gathered =>
    /\ DOMAIN analyses = 1..3
    /\ analyses[1].agent = "Technical Analysis"
    /\ analyses[2].agent = "Fundamental Analysis"
    /\ analyses[3].agent = "Market Analysis"

C2_Witness ==
  /\ pc = "synthesizing"
  /\ completed = <<3, 1, 2>>
  /\ efail[3] = "call"
  /\ <<analyses[1].agent, analyses[2].agent, analyses[3].agent>> = AgentName

\* the failure descriptions analyze substitutes for the analysis, by cause
FailureText(cause) ==
  CASE cause = "render" -> {"Analysis failed: " \o FormatTypeError}
    [] cause = "parse" -> {"Analysis failed: " \o IndexErrorList}
    [] cause = "call" -> {"Analysis failed: " \o e : e \in GenerationErrors}
    [] OTHER -> {}

\* C3: an analyst whose analyze failed (rendering the prompt, in the remote
\* call, or reading the response) has returned an Assessment with its own name,
\* a failure description and cost 0; the request is not aborted by it, and the
\* gather returns only once every analyst has returned.
C3_FailureContained ==
  /\ \A i \in Analysts :
       efail[i] # "none" =>
         /\ epc[i] = "done"
         /\ Len(results[i]) = 1
         /\ results[i][1].agent = AgentName[i]
         /\ results[i][1].analysis \in FailureText(efail[i])
         /\ results[i][1].tokens = 0
  /\ (\E i \in Analysts : efail[i] # "none") => outcome \in {"running", "reported"}
  /\ Gathered => \A i \in Analysts : epc[i] = "done" /\ analyses[i] = results[i][1]

C3_Witness ==
  /\ outcome = "reported"
  /\ efail[2] = "render"
  /\ efail[3] = "call"
  /\ efail[1] = "none"
  /\ report[1].assessments[1].tokens > 0
  /\ report[1].assessments[3].tokens = 0

\* C4: the total cost of a report is the sum of the cost of each of its
\* Assessments plus the cost of the Decision, whichever calls failed; it is 0
\* when every analyst and the synthesizer failed.
C4_TotalCost ==
  report # <<>> =>
    /\ report[1].total_tokens =
         report[1].assessments[1].tokens + report[1].assessments[2].tokens
           + report[1].assessments[3].tokens + recommendation[1].tokens
    /\ report[1].assessments = analyses
    /\ ((\A i \in Analysts : efail[i] # "none") /\ rfail # "none")
         => report[1].total_tokens = 0

C4_Witness ==
  /\ report # <<>>
  /\ efail[1] = "call"
  /\ rfail = "none"
  /\ recommendation[1].tokens = 3
  /\ report[1].total_tokens = 2 + 4 + 3

\* the spellings of a token in any letter case
BuyForms ==
  {<<b, u, y>> : b \in {"B", "b"}, u \in {"U", "u"}, y \in {"Y", "y"}}

SellForms ==
  {<<c, e, l, m>> : c \in {"S", "s"}, e \in {"E", "e"}, l \in {"L", "l"}, m \in {"L", "l"}}

\* the places of text where a spelling of forms starts
PlacesOf(text, forms) ==
  {i \in 1..Len(text) : \E f \in forms :
     i + Len(f) - 1 <= Len(text) /\ SubSeq(text, i, i + Len(f) - 1) = f}

\* the synthesizer's remote call came back and its response was read
Synthesized == response # <<>> /\ rfail = "none" /\ recommendation # <<>>

\* the text of the synthesizer's response
ResponseText ==
  LET b == response[1].content.blocks[1]
  IN  IF b.hasText THEN b.text ELSE b.repr

\* C5: when the synthesizer's call succeeded, the signal is BUY if the response
\* text holds "BUY" in any letter case (also when it holds "SELL"), otherwise
\* SELL if it holds "SELL" in any letter case, otherwise HOLD.
C5_SignalBySearch ==
  Synthesized =>
    recommendation[1].signal =
      IF PlacesOf(ResponseText, BuyForms) # {} THEN BUY
      ELSE IF PlacesOf(ResponseText, SellForms) # {} THEN SELL
      ELSE HOLD

C5_Witness ==
  /\ Synthesized
  /\ ResponseText = <<"S","E","L","L","b","u","y">>
  /\ recommendation[1].signal = BUY

\* C6: when the synthesizer's call succeeded with signal BUY or SELL, the
\* rationale is the response text with the first occurrence of the token that
\* the case-insensitive search found removed (one removal), and the rationale
\* does not begin with the signal token.
C6_FirstOccurrenceRemoved ==
  (Synthesized /\ recommendation[1].signal \in {BUY, SELL}) =>
    LET signal == recommendation[1].signal
        places == PlacesOf(ResponseText, IF signal = BUY THEN BuyForms ELSE SellForms)
        first == CHOOSE i \in places : \A j \in places : i <= j
        removed == SubSeq(ResponseText, 1, first - 1)
                     \o SubSeq(ResponseText, first + Len(signal), Len(ResponseText))
    IN  /\ recommendation[1].explanation = strip(removed)
        /\ ~StartsWith(recommendation[1].explanation, signal)

\* the failure descriptions generate_recommendation returns, by cause
DecisionFailureText(cause) ==
  CASE cause = "client" -> {<<"Failed to initialize client: " \o e>> : e \in ClientErrors}
    [] cause = "call" -> {<<e>> : e \in GenerationErrors}
    [] cause = "parse" -> {<<IndexErrorList>>}
    [] OTHER -> {}

\* the Decision is well-formed, and ERROR exactly on a failed synthesis
DecisionWellFormed ==
  recommendation # <<>> =>
    LET d == recommendation[1]
    IN  /\ d.signal \in {BUY, HOLD, SELL, ERROR}
        /\ d.signal = ERROR <=> rfail # "none"
        /\ rfail # "none" =>
             /\ d.tokens = 0
             /\ d.explanation \in DecisionFailureText(rfail)
             /\ d.signal # HOLD
        /\ d.signal = ERROR =>
             \/ pc = "report" /\ outcome = "running"
             \/ /\ pc = "input"
                /\ outcome = "reported"
                /\ report[1].signal = ERROR
                /\ report[1].rationale = d.explanation

\* C7: the Decision's signal is always one of BUY, HOLD, SELL, ERROR; it is
\* ERROR exactly when the synthesizer's client construction, remote call or
\* response reading failed, and then the cost is 0 and the rationale is the
\* failure description (never HOLD); a request with an ERROR Decision goes on
\* to print its report, with that signal and rationale.
C7_ErrorDecision ==
  /\ []DecisionWellFormed
  /\ (pc = "report" /\ rfail # "none")
       ~> (outcome = "reported" /\ rfail # "none" /\ report[1].signal = ERROR)

C7_Witness ==
  /\ pc = "input"
  /\ outcome = "reported"
  /\ rfail = "call"
  /\ report[1].signal = ERROR
  /\ report[1].total_tokens > 0

\* no remote call was issued in the request at hand
NoRemoteCall == (\A i \in Analysts : calls[i] = <<>>) /\ rcalls = <<>>

\* C8: while the data is being fetched and the features computed no remote
\* call has been issued, and a request whose fetch or computation failed ends
\* at once with a request-level error message, without a report and without
\* any analyst or synthesizer remote call.
C8_NoCallAfterFetchFailure ==
  /\ pc \in {"fetching", "fetching_reference", "computing", "creating"} => NoRemoteCall
  /\ outcome = "aborted" => pc \in {"input", "exit"}
  /\ (outcome = "aborted" /\ pc = "input") =>
       /\ NoRemoteCall
       /\ invocations = <<>>
       /\ report = <<>>
       /\ Len(message) >= 2
       /\ message[1] = "Error: "

C8_Witness ==
  /\ outcome = "aborted"
  /\ pc = "input"
  /\ message = <<"Error: ", "Error fetching data for ", "A", "A", "P", "L", ": ",
                 IndexErrorPositional>>
  /\ NoRemoteCall

\* every analyst's analyze failed
AllAnalystsFailed == \A i \in Analysts : efail[i] # "none"

\* with every analyst failed, the request goes on with three degraded
\* Assessments and one invocation of the synthesizer
AllFailedDegraded ==
  /\ Len(invocations) <= 1
  /\ AllAnalystsFailed =>
       /\ outcome \in {"running", "reported"}
       /\ Gathered =>
            /\ Len(analyses) = 3
            /\ \A i \in Analysts :
                 /\ analyses[i].agent = AgentName[i]
                 /\ analyses[i].analysis \in FailureText(efail[i])
                 /\ analyses[i].tokens = 0
       /\ (pc \in {"awaiting_recommendation", "report"} \/ outcome = "reported")
            => invocations = <<analyses>>
       /\ outcome = "reported" => report[1].assessments = analyses

\* C9: when every analyst failed, the request is not aborted: the gathered
\* list is three degraded Assessments, the synthesizer is invoked once, with
\* exactly those three, and the request goes on to print its report.
C9_AllFailedStillSynthesizes ==
  /\ []AllFailedDegraded
  /\ (AllAnalystsFailed /\ pc = "evaluating")
       ~> (AllAnalystsFailed /\ outcome = "reported" /\ invocations = <<analyses>>)

C9_Witness ==
  /\ outcome = "reported"
  /\ \A i \in Analysts : efail[i] = "call"
  /\ invocations = <<analyses>>
  /\ Len(rcalls) = 1
  /\ report[1].assessments = analyses

\* C10: every analyst that has returned issued exactly one remote call, a
\* synthesis that has returned issued exactly one remote call, and none is
\* ever issued twice.
C10_ExactlyOneCall ==
  /\ \A i \in Analysts : Len(calls[i]) <= 1
  /\ \A i \in Analysts : epc[i] = "done" => Len(calls[i]) = 1
  /\ Len(rcalls) <= 1
  /\ recommendation # <<>> => Len(rcalls) = 1


\* no remote call has come back before every analyst's task was started
AllStartedBeforeAnyReturn ==
  \A i \in Analysts :
    (epc[i] = "done" /\ efail[i] # "render") =>
      \A j \in Analysts : epc[j] \in {"awaiting", "done"}

\* the caller resumes with every analyst done, none skipped
ResumedAfterAll ==
  Gathered =>
    \A i \in Analysts :
      /\ epc[i] = "done"
      /\ Len(results[i]) = 1
      /\ efail[i] # "render" => Len(calls[i]) = 1

\* a task waiting for its remote call is left only by its own return
NeverCancelled ==
  \A i \in Analysts :
    epc[i] = "awaiting" =>
      \/ epc'[i] = "awaiting" /\ results'[i] = <<>>
      \/ epc'[i] = "done" /\ Len(results'[i]) = 1

\* C11: every analyst's task is started before any remote call is waited
\* for; the caller resumes only once every analyst has returned, and it does
\* resume; a waiting analyst is never cancelled or skipped because another
\* one completed or failed first.
C11_AllStartedAllAwaited ==
  /\ [](AllStartedBeforeAnyReturn /\ ResumedAfterAll)
  /\ [][NeverCancelled]_vars
  /\ (pc = "evaluating") ~> (pc = "synthesizing" /\ \A i \in Analysts : epc[i] = "done")

C11_Witness ==
  /\ pc = "evaluating"
  /\ epc = <<"awaiting", "done", "awaiting">>
  /\ efail[2] = "call"
  /\ completed = <<2>>


\* the stage of the request at hand
Stage ==
  CASE pc \in {"fetching", "fetching_reference"} -> "Fetching"
    [] pc \in {"computing", "creating"} -> "Computing"
    [] pc = "evaluating" -> "Evaluating"
    [] pc \in {"synthesizing", "awaiting_recommendation", "report"} -> "Synthesizing"
    [] pc \in {"main", "input", "exit"} /\ outcome = "reported" -> "Reported"
    [] pc \in {"main", "input", "exit"} /\ outcome = "aborted" -> "Aborted"
    [] OTHER -> "Idle"

\* the stages a step may lead to
StageSuccessors(s) ==
  CASE s = "Fetching" -> {"Fetching", "Computing", "Aborted"}
    [] s = "Computing" -> {"Computing", "Evaluating", "Aborted"}
    [] s = "Evaluating" -> {"Evaluating", "Synthesizing"}
    [] s = "Synthesizing" -> {"Synthesizing", "Reported"}
    [] OTHER -> {s, "Idle", "Fetching"}

\* what each stage has and has not done yet
StageContents ==
  /\ rcalls # <<>> => (\A i \in Analysts : epc[i] = "done") /\ Len(analyses) = 3
  /\ invocations # <<>> => Stage \in {"Synthesizing", "Reported"}
  /\ report # <<>> =>
       /\ Stage = "Reported"
       /\ recommendation # <<>>
       /\ report[1].assessments = analyses
       /\ report[1].signal = recommendation[1].signal
  /\ Stage \in {"Fetching", "Computing"} => analyses = <<>> /\ recommendation = <<>>
  /\ Stage = "Evaluating" => recommendation = <<>> /\ rcalls = <<>>
  /\ ((\E i \in Analysts : efail[i] # "none") \/ rfail # "none") => outcome # "aborted"

\* C12: a request moves through its stages only in the order Fetching,
\* Computing, Evaluating, Synthesizing, Reported; the synthesizer's call is
\* issued only after the gather, the report is printed only after the
\* synthesizer returned; only Fetching and Computing can abort the request,
\* a failure inside Evaluating or Synthesizing does not.
C12_StageOrder ==
  /\ []StageContents
  /\ [][Stage' \in StageSuccessors(Stage)]_vars

C12_Witness ==
  /\ Stage = "Reported"
  /\ efail[1] = "call"
  /\ rfail = "parse"
  /\ report # <<>>


\* C13: an analyst started on a FeatureSet with an absent fundamental or
\* market field does not fail rendering its prompt: it issues its remote call
\* with the absent value rendered as an explicit unknown, and its Assessment
\* is not degraded when that call succeeds.
C13_AbsentFieldTolerated ==
  \A i \in Analysts :
    epc[i] \in {"awaiting", "done"} =>
      /\ efail[i] # "render"
      /\ Len(calls[i]) = 1
      /\ \A k \in NumericFormatted(i) :
           feature(data[1], k) = None => calls[i][1].fields[k] = "unknown"
      /\ (epc[i] = "done" /\ efail[i] = "none") => results[i][1].tokens > 0


\* get_data alone: the history of any length, trend and tail has been fetched
\* and the features are computed from it
IndicatorInit ==
  /\ pc = "computing"
  /\ symbol = <<"A","A","P","L">>
  /\ outcome = "running"
  /\ hist \in {<<History(n, t, tail, OptionalFields)>> :
                 n \in SeriesRows, t \in Trends, tail \in Tails}
  /\ spy_hist = <<252>>
  /\ data = <<>>
  /\ epc = [i \in Analysts |-> "none"]
  /\ efail = [i \in Analysts |-> "none"]
  /\ calls = [i \in Analysts |-> <<>>]
  /\ results = [i \in Analysts |-> <<>>]
  /\ completed = <<>>
  /\ analyses = <<>>
  /\ invocations = <<>>
  /\ rcalls = <<>>
  /\ rfail = "none"
  /\ response = <<>>
  /\ recommendation = <<>>
  /\ report = <<>>
  /\ message = <<>>

IndicatorNext == get_data_features

IndicatorSpec == IndicatorInit /\ [][IndicatorNext]_vars

\* get_data returns its FeatureSet in this step
FeaturesReturned == pc = "computing" /\ pc' = "creating"

\* 0 <= a <= 100
InPercentRange(a) == a.kind = "num" /\ 0 <= a.num /\ a.num <= 100 * a.den

\* no close of the last 14 rows is below the close before it
WindowNeverFalls(h) ==
  \A i \in (h.rows - 13)..h.rows : i >= 2 => Close(h)[i] >= Close(h)[i - 1]

\* C14: for every history that fills the 14-row window, the RSI of the
\* FeatureSet is a number in [0, 100], and it is exactly 100 whenever no
\* delta of the window is negative, flat windows included.
C14_OscillatorRange ==
  [][(FeaturesReturned /\ hist[1].rows >= 14) =>
       /\ InPercentRange(data'[1].technical.rsi)
       /\ WindowNeverFalls(hist[1]) =>
            data'[1].technical.rsi.num = 100 * data'[1].technical.rsi.den]_vars

Evaluating == pc \in {"evaluating", "synthesizing", "awaiting_recommendation"}

\* the remote call analyst i has issued went through its own client and
\* was rendered from the FeatureSet of the request
ObservesFeatureSet(i) ==
  calls[i] # <<>> =>
    /\ calls[i][1].symbol = data[1].symbol
    /\ \A k \in DOMAIN calls[i][1].fields :
         calls[i][1].fields[k] \in
           {format_numeric(feature(data[1], k)), format_plain(feature(data[1], k))}
    /\ \A j \in Analysts \ {i} :
         calls[j] # <<>> => calls[j][1].client # calls[i][1].client

\* C16: the analysts share no mutable state: each issues its call through its
\* own client, no step of an analyst or of the synthesizer changes the
\* FeatureSet, and every analyst renders its prompt from that same
\* FeatureSet, whatever the interleaving of the analysts' steps.
C16_NoSharedMutableState ==
  /\ [](Evaluating => \A i \in Analysts : ObservesFeatureSet(i))
  /\ [][Evaluating => data' = data]_vars

C16_Witness ==
  /\ pc = "evaluating"
  /\ completed = <<3, 1>>
  /\ epc[2] = "awaiting"
  /\ \A i \in Analysts : calls[i] # <<>>
  /\ data[1].market.sector # None


\* C17: the combined text the synthesizer sends lists every Assessment of the
\* gathered list exactly once, each as the agent's name, a colon and newline,
\* and the analysis text (degraded texts included), in the order of the
\* gathered list, with a blank line between consecutive Assessments.
C17_CombinedListsAll ==
  rcalls # <<>> =>
    LET c == rcalls[Len(rcalls)]
        N == Len(analyses)
    IN  /\ N = NumAnalysts
        /\ Len(c) = 4 * N - 1
        /\ \A k \in 1..N :
             /\ analyses[k] = results[k][1]
             /\ c[4 * k - 3] = AgentName[k]
             /\ c[4 * k - 2] = ":\n"
             /\ c[4 * k - 1] = analyses[k].analysis
             /\ k < N => c[4 * k] = "\n\n"

C17_Witness ==
  /\ pc = "awaiting_recommendation"
  /\ rcalls # <<>>
  /\ efail = <<"none", "call", "none">>
  /\ rcalls[1][7] \in FailureText("call")
  /\ analyses[1].tokens > 0


\* main is between two requests, or not in the loop
BetweenRequests == pc \in {"main", "input", "exit"}

\* a fetch or a remote call of the request has been issued and not come back
Outstanding ==
  \/ pc \in {"fetching", "fetching_reference", "awaiting_recommendation"}
  \/ \E i \in Analysts : epc[i] = "awaiting"

\* C18: main runs the requests one at a time: a line is read only between
\* requests, when the previous request has been reported or aborted and none
\* of its calls is outstanding; while a request runs no line is read; a
\* request that ends, aborted or reported with an ERROR signal included,
\* returns to the prompt; an empty line starts no fetch and no remote call;
\* and the loop ends only on a line that upper-cases to QUIT or Q.
C18_OneRequestAtATime ==
  /\ [](BetweenRequests <=> outcome # "running")
  /\ [](BetweenRequests => ~Outstanding)
  /\ [][outcome = "running" => symbol' = symbol]_vars
  /\ [][(outcome = "running" /\ outcome' # "running") =>
          (pc' = "input" /\ outcome' \in {"reported", "aborted"})]_vars
  /\ [][(pc = "input" /\ symbol' = <<>>) =>
          (pc' = "input" /\ NoRemoteCall' /\ hist' = <<>> /\ spy_hist' = <<>>)]_vars
  /\ [][(pc = "input" /\ pc' = "exit") => symbol' \in {QUIT, Q}]_vars
  /\ [][pc' = "exit" => pc \in {"main", "input", "exit"}]_vars

C18_Witness ==
  /\ symbol = <<"A", "A", "P", "L">>
  /\ pc = "input"
  /\ outcome = "reported"
  /\ recommendation[1].signal = ERROR
  /\ ~Outstanding


\* the request has printed its report and nothing else
Reported == outcome = "reported" /\ report # <<>> /\ message = <<>>

\* the request has printed its error and no report
Aborted == outcome = "aborted" /\ report = <<>> /\ message # <<>>

\* C19: if every fetch and every remote call comes back, with a result or an
\* exception, every request that was started ends back at the prompt either
\* reported or aborted, never both and never neither; in particular the
\* wait for the three analysts always ends.
C19_RequestTerminates ==
  /\ (outcome = "running") ~> (pc = "input" /\ (Reported \/ Aborted))
  /\ []((pc = "input" /\ outcome \in {"reported", "aborted"}) => (Reported \/ Aborted))
  /\ [](outcome = "running" => report = <<>> /\ message = <<>>)

C19_Witness ==
  /\ pc = "input"
  /\ Aborted
  /\ data # <<>>
  /\ spy_hist = <<>>

====
